---- MODULE Spec2Model ----
(***************************************************************************)
(* Model of the GitHub -> Codebeamer webhook reconciliation engine         *)
(* (src/scripts/webhook_handler.py).  Each webhook delivery is one         *)
(* synchronous do_POST; deliveries run in parallel and share only the      *)
(* remote system, so a delivery is split into steps at its blocking        *)
(* remote calls (list, create, commit, branch).                            *)
(***************************************************************************)
EXTENDS Integers, Sequences, FiniteSets, TLC

\* ------------------------------------------------------------------ bounds
MaxBody == 2        \* longest request body, in bytes
MaxRaceBatch == 2   \* longest push batch of a concurrently delivered event
MaxBatch == 5       \* longest push batch of a single delivery

Deliveries == {"d1", "d2"}
Urls == {"u1", "u2"}
Bytes == {"x", "y"}
Keys == {"k1", "k2"}
BranchName == "b1"

\* A raised transport error (timeout, connection error) instead of a status.
Raised == 0

\* ------------------------------------------------------- python primitives
None == <<>>
Some(v) == <<v>>

SeqsUpTo(S, n) == UNION {[1..k -> S] : k \in 0..n}

\* str.startswith(prefix)
startswith(s, prefix) ==
    /\ Len(s) >= Len(prefix)
    /\ SubSeq(s, 1, Len(prefix)) = prefix

\* s[n:]
SliceFrom(s, n) == SubSeq(s, n + 1, Len(s))

\* ------------------------------------------------------ signature verifier
Sha256Prefix == <<"s", "h", "a", "2", "5", "6", "=">>
Sha1Prefix == <<"s", "h", "a", "1", "=">>

KeyHex(k) == IF k = "k1" THEN "1" ELSE "2"
ByteHex(b) == IF b = "x" THEN "a" ELSE "b"

\* hmac.new(secret, payload_body, hashlib.sha256).hexdigest(): a fixed-length
\* hex string that depends on the key and on every byte of the payload.  The
\* digest is modelled as collision free on the bounded domain.
hexdigest(secret, payload_body) ==
    <<KeyHex(secret)>> \o
    [i \in 1..(MaxBody + 1) |->
        IF i <= Len(payload_body) THEN ByteHex(payload_body[i]) ELSE "0"]

\* hmac.compare_digest
compare_digest(a, b) == a = b

\* A header byte outside ASCII, as http.server hands it over (latin-1).
NonAscii == "E9"

\* hmac.compare_digest raises TypeError on a str that is not ASCII only
compare_digest_raises(a) == \E i \in 1..Len(a) : a[i] = NonAscii

\* verify_signature raises instead of returning
verify_signature_raises(webhook_secret, signature_header) ==
    /\ webhook_secret # ""
    /\ signature_header # None
    /\ startswith(signature_header[1], Sha256Prefix)
    /\ compare_digest_raises(SliceFrom(signature_header[1], 7))

verify_signature_nocompare(webhook_secret, payload_body, signature_header) ==
    IF webhook_secret = "" THEN TRUE
    ELSE IF signature_header = None \/ signature_header = Some(<<>>) THEN FALSE
    ELSE startswith(signature_header[1], Sha256Prefix)

verify_signature_open(webhook_secret, payload_body, signature_header) ==
    IF webhook_secret = "" THEN TRUE
    ELSE IF signature_header = None \/ signature_header = Some(<<>>) THEN TRUE
    ELSE IF ~startswith(signature_header[1], Sha256Prefix) THEN FALSE
    ELSE compare_digest(SliceFrom(signature_header[1], 7),
                        hexdigest(webhook_secret, payload_body))

\* GitHubWebhookHandler.verify_signature; the header is None when absent.
verify_signature(webhook_secret, payload_body, signature_header) ==
    IF webhook_secret = "" THEN TRUE
    ELSE IF signature_header = None \/ signature_header = Some(<<>>) THEN FALSE
    ELSE IF ~startswith(signature_header[1], Sha256Prefix) THEN FALSE
    ELSE compare_digest(SliceFrom(signature_header[1], 7),
                        hexdigest(webhook_secret, payload_body))

\* ------------------------------------------------- response classification
ClassifyCommit_any2xx(status) ==
    IF status \in 200..299 THEN "synced"
    ELSE IF status = 409 THEN "exists"
    ELSE "failed"

ClassifyCommit_conflictFails(status) ==
    IF status \in {200, 201} THEN "synced" ELSE "failed"

\* handle_push_event: the if/elif/else on response.status_code
ClassifyCommit(status) ==
    IF status \in {200, 201} THEN "synced"
    ELSE IF status = 409 THEN "exists"
    ELSE "failed"

CreateResult_alwaysId(status, id) == id

\* sync_repository_to_codebeamer: the id returned after the create call,
\* 0 standing for None
CreateResult(status, id) == IF status \in {200, 201} THEN id ELSE 0


\* -------------------------------------------------------------------- state
VARIABLES
    webhook_secret,  \* WEBHOOK_SECRET of the process, "" when not configured
    req,             \* the delivery each request carries
    pc,              \* where each delivery's do_POST stands
    sigResult,       \* what verify_signature returned, None before the call
    log,             \* the remote calls each delivery issued, in order
    scm_repo_id,     \* the handler's scm_repo_id, 0 for None
    success,         \* what the event handler returned, None before
    response,        \* the statuses passed to send_response, in order
    repos,           \* remote: the project's SCM repositories
    nextRepoId,      \* remote: the id the next created repository gets
    commitRecords,   \* remote: commit records per (repository id, revision)
    branches,        \* remote: branches as (repository id, name)
    resolver,        \* CodebeamerSync.test_basic_connectivity, one run
    linker,          \* CommitReferenceUpdater, one run
    notifier,        \* FailureNotifier, one run of the script
    auth,            \* CodebeamerWebSync, login and connectivity of one run
    sync,            \* CodebeamerSync.run, one run of the script
    validator        \* SyncValidator.run_validation, one run

vars == <<webhook_secret, req, pc, sigResult, log, scm_repo_id, success,
          response, repos, nextRepoId, commitRecords, branches,
          resolver, linker, notifier, auth, sync, validator>>

\* The state of the command-line tools, which the webhook server never
\* touches.
toolVars == <<resolver, linker, notifier, auth, sync, validator>>

webhookVars == <<webhook_secret, req, pc, sigResult, log, scm_repo_id,
                 success, response, repos, nextRepoId, commitRecords,
                 branches>>

NotRun == [pc |-> "off"]

ToolsOff ==
    /\ resolver = NotRun
    /\ linker = NotRun
    /\ notifier = NotRun
    /\ auth = NotRun
    /\ sync = NotRun
    /\ validator = NotRun

remoteVars == <<repos, nextRepoId, commitRecords, branches>>

RepoIds == 1..(1 + Cardinality(Deliveries))
Revs == 1..(MaxBatch + 1)

\* ------------------------------------------------------------------- inputs
Bodies == SeqsUpTo(Bytes, MaxBody) \ {<<>>}

Headers ==
    {None, Some(<<>>), Some(Sha256Prefix \o <<NonAscii>>)} \cup
    {Some(p \o hexdigest(k, m)) :
        p \in {Sha256Prefix, Sha1Prefix, <<>>}, k \in Keys, m \in Bodies}

Batches(n) == {[i \in 1..k |-> i] : k \in 0..n} \cup {<<1, 1>>}

Payloads(n) ==
    {[event |-> "push", url |-> "u1", commits |-> c, ref_type |-> "branch"] :
        c \in Batches(n)}
    \cup
    {[event |-> e, url |-> "u1", commits |-> <<>>, ref_type |-> t] :
        e \in {"create", "delete"}, t \in {"branch", "tag"}}
    \cup
    {[event |-> e, url |-> "u1", commits |-> <<>>, ref_type |-> "branch"] :
        e \in {"pull_request", "ping", "issues"}}

Request(clen, body, sig, json, p) ==
    [clen |-> clen, body |-> body, sig |-> sig, json |-> json,
     event |-> p.event, url |-> p.url, commits |-> p.commits,
     ref_type |-> p.ref_type, client |-> "open"]

\* The same deliveries, also from a client that closes the connection before
\* the response is written.
Hangups(rs) == rs \cup {[r EXCEPT !.client = "gone"] : r \in rs}

\* What json.loads(payload_body.decode('utf-8')) makes of the body: a dict,
\* a JSONDecodeError, a UnicodeDecodeError, or JSON that is not an object.
JsonShapes == {"ok", "bad", "utf8", "nondict"}

GoodSig(k, body) == Some(Sha256Prefix \o hexdigest(k, body))

\* Deliveries that carry a correctly signed, well-formed body.
SignedRequests(n) ==
    {Request("ok", <<"x">>, GoodSig("k1", <<"x">>), "ok", p) : p \in Payloads(n)}

\* Deliveries over every shape of Content-Length, body, header and JSON.
AnyRequests ==
    {Request("ok", b, h, j, p) :
        b \in Bodies, h \in Headers, j \in JsonShapes, p \in Payloads(1)}
    \cup
    {Request(c, <<>>, h, "bad", p) :
        c \in {"zero", "bad"}, h \in Headers, p \in Payloads(0)}

InitialRemotes ==
    {[repos |-> {}, branches |-> {}]} \cup
    {[repos |-> {[id |-> 1, url |-> u]}, branches |-> b] :
        u \in Urls, b \in {{}, {<<1, BranchName>>}}}

InitRemote ==
    /\ \E m \in InitialRemotes : repos = m.repos /\ branches = m.branches
    /\ nextRepoId = 2
    /\ commitRecords = [k \in RepoIds \X Revs |-> 0]

InitLocal(active) ==
    /\ pc = [d \in Deliveries |-> IF d \in active THEN "recv" ELSE "off"]
    /\ sigResult = [d \in Deliveries |-> None]
    /\ log = [d \in Deliveries |-> <<>>]
    /\ scm_repo_id = [d \in Deliveries |-> 0]
    /\ success = [d \in Deliveries |-> None]
    /\ response = [d \in Deliveries |-> <<>>]

\* Two signed deliveries in flight at once.
Init ==
    /\ webhook_secret = "k1"
    /\ req \in [Deliveries -> SignedRequests(MaxRaceBatch)]
    /\ InitLocal(Deliveries)
    /\ InitRemote
    /\ ToolsOff

\* One delivery of any shape, under any secret configuration.
InitVerify ==
    /\ webhook_secret \in {""} \cup Keys
    /\ \E r \in AnyRequests : req = [d \in Deliveries |-> r]
    /\ InitLocal({"d1"})
    /\ InitRemote
    /\ ToolsOff

\* One delivery of any shape whose client may have closed the connection.
InitHangup ==
    /\ webhook_secret \in {""} \cup Keys
    /\ \E r \in Hangups(AnyRequests) : req = [d \in Deliveries |-> r]
    /\ InitLocal({"d1"})
    /\ InitRemote
    /\ ToolsOff

\* One signed delivery with a long push batch.
InitBatch ==
    /\ webhook_secret = "k1"
    /\ \E r \in SignedRequests(MaxBatch) : req = [d \in Deliveries |-> r]
    /\ InitLocal({"d1"})
    /\ InitRemote
    /\ ToolsOff


\* ---------------------------------------------------------------- handlers
Entry(call, status, target, rev, outcome) ==
    [call |-> call, status |-> status, target |-> target, rev |-> rev,
     outcome |-> outcome]

Calls(d, call) == {i \in 1..Len(log[d]) : log[d][i].call = call}

\* do_POST: the statuses passed to send_response when a branch of the try
\* sends `status`: end_headers and wfile.write follow send_response inside the
\* try, a write to a closed connection raises, and the except clause calls
\* send_response(500)
Sent(d, status) ==
    IF req[d].client = "gone" THEN <<status, 500>> ELSE <<status>>

Finish_always200(d, ok) ==
    /\ success' = [success EXCEPT ![d] = Some(ok)]
    /\ response' = [response EXCEPT ![d] = Append(@, 200)]
    /\ pc' = [pc EXCEPT ![d] = "done"]

\* do_POST: the handler returned ok; send_response(200) or send_response(500)
Finish(d, ok) ==
    /\ success' = [success EXCEPT ![d] = Some(ok)]
    /\ response' = [response EXCEPT
                        ![d] = @ \o Sent(d, IF ok THEN 200 ELSE 500)]
    /\ pc' = [pc EXCEPT ![d] = "done"]

\* do_POST: a boundary check answered the request, no handler called; 500 is
\* sent by the except clause, where a raising write leaves do_POST
Reject(d, status) ==
    /\ response' = [response EXCEPT
                        ![d] = @ \o (IF status = 500 THEN <<500>>
                                     ELSE Sent(d, status))]
    /\ pc' = [pc EXCEPT ![d] = "done"]
    /\ UNCHANGED success

AfterReconcile_ignoreNone(d, id) ==
    /\ scm_repo_id' = [scm_repo_id EXCEPT ![d] = id]
    /\ IF req[d].event = "pull_request" \/ id = 0 THEN Finish(d, TRUE)
       ELSE IF req[d].event = "push" THEN
            IF req[d].commits = <<>> THEN Finish(d, TRUE)
            ELSE pc' = [pc EXCEPT ![d] = "commit"]
                 /\ UNCHANGED <<success, response>>
       ELSE IF req[d].ref_type = "branch" THEN
            pc' = [pc EXCEPT ![d] = "branch"] /\ UNCHANGED <<success, response>>
       ELSE Finish(d, TRUE)

AfterReconcile_retryCreate(d, id) ==
    /\ scm_repo_id' = [scm_repo_id EXCEPT ![d] = id]
    /\ IF id = 0 /\ pc[d] = "create" /\ Calls(d, "create") = {}
       THEN UNCHANGED <<pc, success, response>>
       ELSE IF req[d].event = "pull_request" THEN Finish(d, TRUE)
       ELSE IF id = 0 THEN Finish(d, FALSE)
       ELSE IF req[d].event = "push" THEN
            IF req[d].commits = <<>> THEN Finish(d, TRUE)
            ELSE pc' = [pc EXCEPT ![d] = "commit"]
                 /\ UNCHANGED <<success, response>>
       ELSE IF req[d].ref_type = "branch" THEN
            pc' = [pc EXCEPT ![d] = "branch"] /\ UNCHANGED <<success, response>>
       ELSE Finish(d, TRUE)

AfterReconcile_prLikePush(d, id) ==
    /\ scm_repo_id' = [scm_repo_id EXCEPT ![d] = id]
    /\ IF id = 0 THEN Finish(d, FALSE)
       ELSE IF req[d].event = "push" THEN
            IF req[d].commits = <<>> THEN Finish(d, TRUE)
            ELSE pc' = [pc EXCEPT ![d] = "commit"]
                 /\ UNCHANGED <<success, response>>
       ELSE IF req[d].ref_type = "branch" THEN
            pc' = [pc EXCEPT ![d] = "branch"] /\ UNCHANGED <<success, response>>
       ELSE Finish(d, TRUE)

\* handle_*_event after sync_repository_to_codebeamer returned id (0 = None)
AfterReconcile(d, id) ==
    /\ scm_repo_id' = [scm_repo_id EXCEPT ![d] = id]
    /\ IF req[d].event = "pull_request" THEN Finish(d, TRUE)
       ELSE IF id = 0 THEN Finish(d, FALSE)
       ELSE IF req[d].event = "push" THEN
            IF req[d].commits = <<>> THEN Finish(d, TRUE)
            ELSE pc' = [pc EXCEPT ![d] = "commit"]
                 /\ UNCHANGED <<success, response>>
       ELSE IF req[d].ref_type = "branch" THEN
            pc' = [pc EXCEPT ![d] = "branch"] /\ UNCHANGED <<success, response>>
       ELSE Finish(d, TRUE)

HandledEvents_withPing ==
    {"push", "create", "delete", "pull_request", "ping", "issues"}

\* do_POST: the event types dispatched to a handler
HandledEvents == {"push", "create", "delete", "pull_request"}

\* do_POST up to the handler's first remote call
Receive(d) ==
    /\ pc[d] = "recv"
    /\ UNCHANGED <<webhook_secret, req, log, scm_repo_id, remoteVars, toolVars>>
    /\ IF req[d].clen = "bad" THEN
            \* int() raises, the outer except answers 500
            Reject(d, 500) /\ UNCHANGED sigResult
       ELSE IF req[d].clen = "zero" THEN
            Reject(d, 400) /\ UNCHANGED sigResult
       ELSE IF verify_signature_raises(webhook_secret, req[d].sig) THEN
            \* the TypeError reaches the outer except, which answers 500
            Reject(d, 500) /\ UNCHANGED sigResult
       ELSE LET v == verify_signature(webhook_secret, req[d].body, req[d].sig) IN
            /\ sigResult' = [sigResult EXCEPT ![d] = Some(v)]
            /\ IF ~v THEN Reject(d, 401)
               ELSE IF req[d].json = "bad" THEN Reject(d, 400)
               ELSE IF req[d].json = "utf8" THEN
                    \* decode('utf-8') raises UnicodeDecodeError, which is no
                    \* JSONDecodeError: the outer except answers 500
                    Reject(d, 500)
               ELSE IF req[d].event \in HandledEvents
                    THEN IF req[d].json = "nondict"
                         THEN \* payload.get raises inside the handler's try
                              Finish(d, FALSE)
                         ELSE pc' = [pc EXCEPT ![d] = "list"]
                              /\ UNCHANGED <<success, response>>
               ELSE Finish(d, TRUE)

Matching(url) == {r \in repos : r.url = url}

\* sync_repository_to_codebeamer: session.get(scm_repos_url) and the search
ListRepos(d) ==
    /\ pc[d] = "list"
    /\ UNCHANGED <<webhook_secret, req, sigResult, remoteVars, toolVars>>
    /\ \E status \in {200, 500, Raised} :
        /\ log' = [log EXCEPT ![d] = Append(@, Entry("list", status, 0, 0, "-"))]
        /\ IF status = Raised THEN AfterReconcile(d, 0)
           ELSE IF status = 200 /\ Matching(req[d].url) # {} THEN
                \E r \in Matching(req[d].url) : AfterReconcile(d, r.id)
           ELSE pc' = [pc EXCEPT ![d] = "create"]
                /\ UNCHANGED <<scm_repo_id, success, response>>

\* The statuses the remote can answer a repository creation with.
CreateStatuses(url) ==
    {201, 500, Raised} \cup (IF Matching(url) # {} THEN {409} ELSE {})

\* sync_repository_to_codebeamer: session.post(scm_repos_url, ...)
CreateRepo(d) ==
    /\ pc[d] = "create"
    /\ UNCHANGED <<webhook_secret, req, sigResult, commitRecords, branches,
                   toolVars>>
    /\ \E status \in CreateStatuses(req[d].url) :
        /\ log' = [log EXCEPT ![d] =
                Append(@, Entry("create", status,
                                IF status = 201 THEN nextRepoId ELSE 0, 0, "-"))]
        /\ IF status = 201
           THEN /\ repos' = repos \cup {[id |-> nextRepoId, url |-> req[d].url]}
                /\ nextRepoId' = nextRepoId + 1
           ELSE UNCHANGED <<repos, nextRepoId>>
        /\ IF status = Raised THEN AfterReconcile(d, 0)
           ELSE AfterReconcile(d, CreateResult(status, nextRepoId))

\* The statuses the remote can answer a commit-record creation with.
CommitStatuses(id, rev) ==
    {500, Raised} \cup
    (IF commitRecords[<<id, rev>>] > 0 THEN {409} ELSE {201, 202})

\* handle_push_event: one iteration of the loop over the commits
PostCommit(d) ==
    /\ pc[d] = "commit"
    /\ UNCHANGED <<webhook_secret, req, sigResult, scm_repo_id, repos,
                   nextRepoId, branches, toolVars>>
    /\ LET i == Cardinality(Calls(d, "commit")) + 1
           rev == req[d].commits[i]
           id == scm_repo_id[d]
       IN \E status \in CommitStatuses(id, rev) :
            /\ log' = [log EXCEPT ![d] =
                    Append(@, Entry("commit", status, id, rev,
                        IF status = Raised THEN "raised"
                        ELSE ClassifyCommit(status)))]
            /\ commitRecords' =
                    IF status \in {201, 202}
                    THEN [commitRecords EXCEPT ![<<id, rev>>] = @ + 1]
                    ELSE commitRecords
            /\ IF status = Raised THEN Finish(d, FALSE)
               ELSE IF i = Len(req[d].commits) THEN Finish(d, TRUE)
               ELSE UNCHANGED <<pc, success, response>>

\* The statuses the remote can answer a branch call with.
BranchStatuses(event, id) ==
    {500, Raised} \cup
    (IF event = "create"
     THEN (IF <<id, BranchName>> \in branches THEN {409} ELSE {201})
     ELSE (IF <<id, BranchName>> \in branches THEN {204} ELSE {404}))

BranchResult_needs2xx(status) == status \in {200, 201, 204}

\* handle_create_event / handle_delete_event: what the handler returns after
\* the branch call; every status is logged and True returned, a raised
\* call reaches the except and False is returned
BranchResult(status) == status # Raised

\* handle_create_event / handle_delete_event: the branch call
BranchCall(d) ==
    /\ pc[d] = "branch"
    /\ UNCHANGED <<webhook_secret, req, sigResult, scm_repo_id, repos,
                   nextRepoId, commitRecords, toolVars>>
    /\ LET id == scm_repo_id[d] IN
       \E status \in BranchStatuses(req[d].event, id) :
            /\ log' = [log EXCEPT ![d] =
                    Append(@, Entry("branch", status, id, 0, "-"))]
            /\ branches' =
                    IF status = 201 THEN branches \cup {<<id, BranchName>>}
                    ELSE IF status = 204 THEN branches \ {<<id, BranchName>>}
                    ELSE branches
            /\ Finish(d, BranchResult(status))

Next ==
    \E d \in Deliveries :
        \/ Receive(d)
        \/ ListRepos(d)
        \/ CreateRepo(d)
        \/ PostCommit(d)
        \/ BranchCall(d)

Spec == Init /\ [][Next]_vars
SpecVerify == InitVerify /\ [][Next]_vars
SpecBatch == InitBatch /\ [][Next]_vars
SpecHangup == InitHangup /\ [][Next]_vars

TypeOK ==
    /\ webhook_secret \in {""} \cup Keys
    /\ pc \in [Deliveries -> {"off", "recv", "list", "create", "commit",
                              "branch", "done"}]
    /\ scm_repo_id \in [Deliveries -> {0} \cup RepoIds]
    /\ \A d \in Deliveries : Len(response[d]) <= 2
    /\ nextRepoId \in 2..(2 + Cardinality(Deliveries))


\* ------------------------------------------------------------- properties
Listed200(d) == \E i \in Calls(d, "list") : log[d][i].status = 200
CreateAccepted(d) == \E i \in Calls(d, "create") : log[d][i].status \in {200, 201}
NoCommitRaised(d) == \A i \in Calls(d, "commit") : log[d][i].status # Raised
IsPush(d) == pc[d] # "off" /\ req[d].event = "push"
Succeeded == {"synced", "exists"}

BadHeader(h) ==
    h = None \/ h = Some(<<>>) \/ ~startswith(h[1], Sha256Prefix)

\* C1: deliveries for the same source URL, each of which obtained the
\* listing, never leave the remote with more than one repository created
\* for that URL: at most one of their creation calls is accepted.
C1_NoDuplicateMirror ==
    \A u \in Urls :
        Cardinality({d \in Deliveries :
            req[d].url = u /\ Listed200(d) /\ CreateAccepted(d)}) <= 1

\* C2: a resolve whose create call is answered with a conflict returns the
\* id of the existing repository for that URL, not a failed result.
C2_ConflictIsLookupSuccess ==
    \A d \in Deliveries :
        (\E i \in Calls(d, "create") : log[d][i].status = 409)
            => scm_repo_id[d] \in {r.id : r \in Matching(req[d].url)}

\* C3: a repository-creation call is issued only after the listing of
\* the project's repositories was obtained with success.
C3_SearchBeforeCreate ==
    \A d \in Deliveries : Calls(d, "create") # {} => Listed200(d)

\* C4 (as stated): a commit answered 2xx or 409 counts as success, and a
\* batch whose calls all return a status issues a call for every commit.
C4_Any2xxOr409Succeeds ==
    \A d \in Deliveries :
        /\ \A i \in Calls(d, "commit") :
            log[d][i].status \in (200..299) \cup {409}
                => log[d][i].outcome \in Succeeded
        /\ (IsPush(d) /\ pc[d] = "done" /\ scm_repo_id[d] # 0
                /\ NoCommitRaised(d))
            => Cardinality(Calls(d, "commit")) = Len(req[d].commits)

\* C4 (amended): a commit counts as success exactly when its call returns
\* 200, 201 or 409; any other status, other 2xx included, is a per-commit
\* failure, and a batch on a resolved repository whose calls all return a
\* status issues a call for every commit and is reported successful.
C4_StatusesDoNotAbort ==
    \A d \in Deliveries :
        /\ \A i \in Calls(d, "commit") :
            log[d][i].status # Raised
                => (log[d][i].outcome \in Succeeded
                        <=> log[d][i].status \in {200, 201, 409})
        /\ (IsPush(d) /\ pc[d] = "done" /\ scm_repo_id[d] # 0
                /\ NoCommitRaised(d))
            => /\ Cardinality(Calls(d, "commit")) = Len(req[d].commits)
               /\ success[d] = Some(TRUE)

C4_Witness ==
    \E d \in Deliveries :
        /\ IsPush(d) /\ pc[d] = "done" /\ Len(req[d].commits) >= 3
        /\ Cardinality(Calls(d, "commit")) = Len(req[d].commits)
        /\ \E i \in Calls(d, "commit") :
            /\ log[d][i].status = 500 /\ log[d][i].outcome = "failed"
            /\ i < Len(log[d])
        /\ \E i \in Calls(d, "commit") :
            log[d][i].status = 202 /\ log[d][i].outcome = "failed"
        /\ success[d] = Some(TRUE)

\* C5: when the call for one commit raises a transport error, the
\* remaining commits are still submitted and processing completes.
C5_TimeoutDoesNotAbort ==
    \A d \in Deliveries :
        (IsPush(d) /\ pc[d] = "done" /\ scm_repo_id[d] # 0)
            => /\ Cardinality(Calls(d, "commit")) = Len(req[d].commits)
               /\ success[d] = Some(TRUE)

\* C6: a revision submitted again leaves one commit record for
\* (repository id, revision); the 409 answer is observed as success and
\* the delivery is reported successful.
C6_DuplicateCommitIdempotent ==
    /\ \A k \in DOMAIN commitRecords : commitRecords[k] <= 1
    /\ \A d \in Deliveries :
        /\ \A i \in Calls(d, "commit") :
            log[d][i].status = 409
                => /\ log[d][i].outcome \in Succeeded
                   /\ commitRecords[<<log[d][i].target, log[d][i].rev>>] = 1
        /\ ((\E i \in Calls(d, "commit") : log[d][i].status = 409)
                /\ pc[d] = "done" /\ NoCommitRaised(d))
            => success[d] = Some(TRUE) /\ response[d] = <<200>>

C6_Witness ==
    \E d \in Deliveries :
        /\ pc[d] = "done" /\ success[d] = Some(TRUE) /\ response[d] = <<200>>
        /\ \E i \in Calls(d, "commit") :
            /\ log[d][i].status = 409 /\ log[d][i].outcome = "exists"
            /\ commitRecords[<<log[d][i].target, log[d][i].rev>>] = 1

\* C7: a push that found no mirror issues one repository-creation call;
\* every commit-record call comes after that call returned the new id and
\* targets that id; with the creation accepted and no call raising, one
\* commit-record call is issued per commit of the batch.
C7_CreateThenCommits ==
    \A d \in Deliveries :
        IsPush(d) =>
            /\ Cardinality(Calls(d, "create")) <= 1
            /\ \A i \in Calls(d, "commit") :
                /\ log[d][i].target # 0
                /\ log[d][i].target = scm_repo_id[d]
                /\ \A j \in Calls(d, "create") :
                    /\ j < i
                    /\ log[d][j].status \in {200, 201}
                    /\ log[d][j].target = log[d][i].target
            /\ (pc[d] = "done" /\ CreateAccepted(d) /\ NoCommitRaised(d))
                => Cardinality(Calls(d, "commit")) = Len(req[d].commits)

C7_Witness ==
    \E d \in Deliveries :
        /\ IsPush(d) /\ pc[d] = "done" /\ req[d].commits = <<1, 2>>
        /\ Listed200(d)
        /\ Cardinality(Calls(d, "create")) = 1
        /\ Cardinality(Calls(d, "commit")) = 2
        /\ \A i \in Calls(d, "commit") :
            log[d][i].outcome = "synced" /\ log[d][i].target = nextRepoId - 1
        /\ success[d] = Some(TRUE)

\* C8: with a secret configured, the header 'sha256=' + the digest of the
\* received body under the secret verifies, and the header carrying the
\* digest of any other payload does not.
C8_SignatureMatchesBody ==
    \A d \in Deliveries :
        (sigResult[d] # None /\ webhook_secret # "") =>
            /\ req[d].sig = GoodSig(webhook_secret, req[d].body)
                => sigResult[d] = Some(TRUE)
            /\ \A m \in Bodies \ {req[d].body} :
                req[d].sig = GoodSig(webhook_secret, m)
                    => sigResult[d] = Some(FALSE)

C8_Witness ==
    \E d \in Deliveries :
        /\ webhook_secret # ""
        /\ req[d].sig = GoodSig(webhook_secret, req[d].body)
        /\ sigResult[d] = Some(TRUE)
        /\ response[d] # <<401>> /\ pc[d] \in {"list", "done"}

\* C9 (as stated): with a secret configured, a delivery (with a well-formed
\* Content-Length) whose signature header is missing, empty or unprefixed
\* is answered 401 with no handler run.
C9_BadHeaderAnswered401 ==
    \A d \in Deliveries :
        (webhook_secret # "" /\ BadHeader(req[d].sig) /\ pc[d] = "done"
                /\ req[d].clen # "bad")
            => response[d] = <<401>> /\ success[d] = None

\* C9 (amended): with a secret configured and such a header, no handler
\* runs and no remote call is issued; a delivery whose body is read is
\* found invalid and answered 401, a delivery without a body is answered
\* 400 and one with an unparseable Content-Length 500, both before the
\* signature is examined.
C9_FailsClosed ==
    \A d \in Deliveries :
        (webhook_secret # "" /\ BadHeader(req[d].sig) /\ pc[d] # "recv"
                /\ pc[d] # "off")
            => /\ pc[d] = "done" /\ success[d] = None /\ log[d] = <<>>
               /\ req[d].clen = "ok"
                    => sigResult[d] = Some(FALSE) /\ response[d] = <<401>>
               /\ req[d].clen = "zero"
                    => sigResult[d] = None /\ response[d] = <<400>>
               /\ req[d].clen = "bad"
                    => sigResult[d] = None /\ response[d] = <<500>>

C9_Witness ==
    \E d \in Deliveries :
        /\ webhook_secret # "" /\ req[d].sig = None /\ req[d].clen = "ok"
        /\ req[d].json = "ok" /\ req[d].event = "push"
        /\ sigResult[d] = Some(FALSE) /\ response[d] = <<401>>
        /\ success[d] = None /\ log[d] = <<>>

\* C10: with no secret configured the verifier's result differs from the
\* value it returns for a successfully verified signature.
C10_SkippedIsDistinct ==
    \A d \in Deliveries :
        (sigResult[d] # None /\ webhook_secret = "")
            => sigResult[d] #
                Some(verify_signature("k1", req[d].body,
                                      GoodSig("k1", req[d].body)))


\* The body was read and the signature check let it through.
SignaturePassed(d) == sigResult[d] = Some(TRUE)

\* The signature header does not carry the digest of the received body.
WrongSignature(d) ==
    /\ webhook_secret # ""
    /\ req[d].clen = "ok"
    /\ req[d].sig # GoodSig(webhook_secret, req[d].body)

\* The status the claimed mapping assigns to a finished delivery.
ClaimedStatus(d) ==
    IF req[d].clen = "zero" THEN 400
    ELSE IF req[d].clen = "ok" /\ sigResult[d] = Some(FALSE) THEN 401
    ELSE IF req[d].clen = "ok" /\ WrongSignature(d) THEN 401
    ELSE IF req[d].json \in {"bad", "utf8"} THEN 400
    ELSE IF success[d] = Some(FALSE) THEN 500
    ELSE 200

\* do_POST raised outside the handlers and its outer except answered.
InternalError(d) ==
    \/ req[d].clen = "bad"
    \/ /\ req[d].clen = "ok"
       /\ verify_signature_raises(webhook_secret, req[d].sig)
    \/ /\ req[d].clen = "ok" /\ SignaturePassed(d) /\ req[d].json = "utf8"

\* C11 (as stated): an empty body or unparseable JSON gives 400, an invalid
\* signature 401, a handler reporting failure 500, everything else 200.
C11_StatusMapping ==
    \A d \in Deliveries :
        pc[d] = "done" => response[d] = <<ClaimedStatus(d)>>

\* C11 (amended): as stated, except that an exception raised in do_POST
\* itself (unparseable Content-Length, a signature header that is not
\* ASCII, a body that is not UTF-8) gives 500.
C11_StatusMappingOrInternalError ==
    \A d \in Deliveries :
        pc[d] = "done" =>
            response[d] = <<IF InternalError(d) THEN 500 ELSE ClaimedStatus(d)>>

C11_Witness ==
    \E d \in Deliveries :
        /\ pc[d] = "done" /\ ~InternalError(d) /\ SignaturePassed(d)
        /\ req[d].event = "push" /\ success[d] = Some(FALSE)
        /\ Calls(d, "create") # {}
        /\ response[d] = <<500>>

\* C12: a delivery answered 400 or 401 issued no remote call, and a
\* delivery whose signature is wrong or whose JSON does not parse never
\* issues one.
C12_RejectedBeforeRemoteCall ==
    \A d \in Deliveries :
        /\ (response[d] # <<>> /\ response[d][1] \in {400, 401})
            => log[d] = <<>>
        /\ (pc[d] # "off" /\ (WrongSignature(d) \/ req[d].json \in {"bad", "utf8"}))
            => log[d] = <<>> /\ pc[d] \in {"recv", "done"}

C12_Witness ==
    \E d \in Deliveries :
        /\ WrongSignature(d) /\ req[d].sig # None /\ ~BadHeader(req[d].sig)
        /\ req[d].event = "push" /\ req[d].json = "ok"
        /\ response[d] = <<401>> /\ log[d] = <<>>

\* The delivery passed the signature check and its JSON parsed to an object.
PassedBoundary(d) == SignaturePassed(d) /\ req[d].json = "ok"

\* A deeper step failed in a way the handler reports.
HandlerFailure(d) ==
    \/ req[d].event \in {"push", "create", "delete"} /\ scm_repo_id[d] = 0
    \/ \E i \in 1..Len(log[d]) :
        log[d][i].call \in {"commit", "branch"} /\ log[d][i].status = Raised

\* C13 (as stated): a delivery that passes signature and payload
\* validation gets the same status, 200, whether or not deeper steps fail.
C13_StatusOnlyFromBoundary ==
    \A d \in Deliveries :
        (PassedBoundary(d) /\ pc[d] = "done") => response[d] = <<200>>

\* C13 (amended): such a delivery is answered 200 unless its handler
\* reports failure: error statuses of commit or branch calls leave it at
\* 200, a failed repository reconcile (push, create, delete) or a raised
\* commit or branch call makes it 500.
C13_StatusFollowsHandler ==
    \A d \in Deliveries :
        (PassedBoundary(d) /\ pc[d] = "done") =>
            /\ response[d] = <<IF HandlerFailure(d) THEN 500 ELSE 200>>
            /\ success[d] = Some(~HandlerFailure(d))

C13_Witness ==
    \E d \in Deliveries :
        /\ PassedBoundary(d) /\ pc[d] = "done" /\ req[d].event = "push"
        /\ \E i \in Calls(d, "commit") : log[d][i].status = 500
        /\ response[d] = <<200>>

IsBranchEvent(d, event) ==
    pc[d] # "off" /\ req[d].event = event /\ req[d].ref_type = "branch"

\* C21: a delete event for a branch the remote does not have (the delete
\* call is answered 404) is a success: the handler returns True and the
\* delivery is answered 200.
C21_DeleteOfAbsentBranchSucceeds ==
    \A d \in Deliveries :
        (/\ pc[d] = "done" /\ IsBranchEvent(d, "delete")
         /\ \E i \in Calls(d, "branch") : log[d][i].status = 404)
            => success[d] = Some(TRUE) /\ response[d] = <<200>>

C21_Witness ==
    \E d \in Deliveries :
        /\ pc[d] = "done" /\ IsBranchEvent(d, "delete")
        /\ \E i \in Calls(d, "branch") :
            /\ log[d][i].status = 404
            /\ <<log[d][i].target, BranchName>> \notin branches
        /\ success[d] = Some(TRUE) /\ response[d] = <<200>>

\* The deliveries whose branch call for the mirror id was accepted.
BranchAccepted(id) ==
    {d \in Deliveries :
        \E i \in Calls(d, "branch") :
            log[d][i].target = id /\ log[d][i].status = 201}

\* C22: a finished branch create or delete event that resolved a mirror
\* has issued exactly one branch call, to that mirror, and no other event
\* issues one; when the same branch-create event is delivered twice, at most
\* one of the calls to a mirror is accepted, an accepted call leaves that
\* mirror with the branch, and both deliveries report success unless a
\* branch call raised.
C22_OneIdempotentBranchCall ==
    /\ \A d \in Deliveries :
        /\ Cardinality(Calls(d, "branch")) <= 1
        /\ \A i \in Calls(d, "branch") :
            /\ i = Len(log[d])
            /\ req[d].event \in {"create", "delete"} /\ req[d].ref_type = "branch"
            /\ log[d][i].target = scm_repo_id[d] /\ scm_repo_id[d] # 0
        /\ (/\ pc[d] = "done" /\ scm_repo_id[d] # 0
            /\ (IsBranchEvent(d, "create") \/ IsBranchEvent(d, "delete")))
            => Cardinality(Calls(d, "branch")) = 1
    /\ (\A d \in Deliveries : pc[d] = "done" /\ IsBranchEvent(d, "create"))
        => /\ \A id \in RepoIds :
                /\ Cardinality(BranchAccepted(id)) <= 1
                /\ BranchAccepted(id) # {} => <<id, BranchName>> \in branches
           /\ \A d \in Deliveries :
                (\E i \in Calls(d, "branch") : log[d][i].status # Raised)
                    => success[d] = Some(TRUE) /\ response[d] = <<200>>

C22_Witness ==
    /\ \A d \in Deliveries :
        /\ pc[d] = "done" /\ IsBranchEvent(d, "create")
        /\ success[d] = Some(TRUE) /\ scm_repo_id[d] = 1
    /\ \E d \in Deliveries : \E i \in Calls(d, "branch") : log[d][i].status = 201
    /\ \E d \in Deliveries : \E i \in Calls(d, "branch") : log[d][i].status = 409
    /\ <<1, BranchName>> \in branches

\* The reconcile of the delivery ended without a mirror: the listing or the
\* creation call raised, or the creation call was refused.
ReconcileFailed(d) ==
    /\ scm_repo_id[d] = 0
    /\ \/ \E i \in Calls(d, "list") : log[d][i].status = Raised
       \/ \E i \in Calls(d, "create") : log[d][i].status \notin {200, 201}

\* C23: an event whose reconcile resolved no mirror issues no commit-record
\* and no branch call, and its handler reports failure.
C23_ReconcileFailureEscalated ==
    \A d \in Deliveries :
        ReconcileFailed(d) =>
            /\ Calls(d, "commit") = {} /\ Calls(d, "branch") = {}
            /\ pc[d] = "done"
            /\ success[d] = Some(FALSE)


\* =================================================== command-line tools
\* The scripts under src/scripts run as separate processes; while one of
\* them runs, the webhook server's state does not change.
WebhookOff ==
    /\ webhook_secret = ""
    /\ req = [d \in Deliveries |->
                Request("zero", <<>>, None, "bad",
                        [event |-> "ping", url |-> "u1", commits |-> <<>>,
                         ref_type |-> "branch"])]
    /\ InitLocal({})
    /\ repos = {} /\ branches = {}
    /\ nextRepoId = 2
    /\ commitRecords = [k \in RepoIds \X Revs |-> 0]

\* ------------------------------------------------------ endpoint resolver
\* test_basic_connectivity: the candidates, in priority order
api_versions == <<"/rest/v3", "/rest/v2", "/cb/rest/v3", "/cb/rest/v2">>

\* What a probe of {api_version}/user can come back with: a status and
\* whether response.json() gives user data.
ProbeAnswers ==
    {[status |-> 200, parseable |-> TRUE], [status |-> 200, parseable |-> FALSE]}
    \cup {[status |-> st, parseable |-> FALSE] :
            st \in {404, 401, 403, 500, Raised}}

ProbeSelects_unparsed(answer) == answer.status = 200

\* test_basic_connectivity: the candidate is returned
ProbeSelects(answer) == answer.status = 200 /\ answer.parseable

\* test_basic_connectivity: one iteration of the loop over api_versions
Probe ==
    /\ resolver.pc = "probe"
    /\ UNCHANGED <<webhookVars, linker, notifier, auth, sync, validator>>
    /\ LET i == Len(resolver.probes) + 1 IN
       \E answer \in ProbeAnswers :
         LET probed == Append(resolver.probes,
                              [path |-> api_versions[i],
                               status |-> answer.status,
                               parseable |-> answer.parseable])
         IN resolver' =
              IF ProbeSelects(answer)
              THEN [pc |-> "done", probes |-> probed,
                    result |-> Some(api_versions[i])]
              ELSE IF i = Len(api_versions)
              THEN [pc |-> "done", probes |-> probed, result |-> None]
              ELSE [pc |-> "probe", probes |-> probed, result |-> None]

InitResolver ==
    /\ WebhookOff
    /\ resolver = [pc |-> "probe", probes |-> <<>>, result |-> None]
    /\ linker = NotRun /\ notifier = NotRun /\ auth = NotRun
    /\ sync = NotRun
    /\ validator = NotRun

NextResolver == Probe

SpecResolver == InitResolver /\ [][NextResolver]_vars

\* C14: a candidate answering 401 or 403 ends the resolution: no later
\* candidate is probed and no endpoint is selected.
C14_AuthFailureAborts ==
    resolver.pc # "off" =>
        \A k \in 1..Len(resolver.probes) :
            resolver.probes[k].status \in {401, 403}
                => Len(resolver.probes) = k /\ resolver.result = None

\* C15: candidates are probed in list order; the result is the first
\* candidate whose probe answers 200 with parseable user data, and none is
\* probed after it; every other answer is skipped; when no candidate
\* succeeds all were probed and the result is None.
C15_FirstWorkingCandidate ==
    resolver.pc # "off" =>
        LET n == Len(resolver.probes)
            ok(k) == resolver.probes[k].status = 200
                        /\ resolver.probes[k].parseable
        IN /\ \A k \in 1..n : resolver.probes[k].path = api_versions[k]
           /\ \A k \in 1..(n - 1) : ~ok(k)
           /\ resolver.pc = "probe" => n < Len(api_versions) /\ \A k \in 1..n : ~ok(k)
           /\ resolver.pc = "done" =>
                IF ok(n) THEN resolver.result = Some(api_versions[n])
                ELSE n = Len(api_versions) /\ resolver.result = None

C15_Witness ==
    /\ resolver.pc = "done"
    /\ Len(resolver.probes) = 3
    /\ resolver.probes[1].status = 404
    /\ resolver.probes[2].status = 200 /\ ~resolver.probes[2].parseable
    /\ resolver.result = Some("/cb/rest/v3")


\* int(self.project_id) raises
int_raises(project_id) == project_id # "digits"

\* -------------------------------------------------------- work-item linker
MaxMsg == 4         \* longest commit message drawn from MsgChars

\* str.lower(), restricted to ASCII letters
ToLower ==
    ("A" :> "a" @@
     "B" :> "b" @@
     "C" :> "c" @@
     "D" :> "d" @@
     "E" :> "e" @@
     "F" :> "f" @@
     "G" :> "g" @@
     "H" :> "h" @@
     "I" :> "i" @@
     "J" :> "j" @@
     "K" :> "k" @@
     "L" :> "l" @@
     "M" :> "m" @@
     "N" :> "n" @@
     "O" :> "o" @@
     "P" :> "p" @@
     "Q" :> "q" @@
     "R" :> "r" @@
     "S" :> "s" @@
     "T" :> "t" @@
     "U" :> "u" @@
     "V" :> "v" @@
     "W" :> "w" @@
     "X" :> "x" @@
     "Y" :> "y" @@
     "Z" :> "z")

Lower(c) == IF c \in DOMAIN ToLower THEN ToLower[c] ELSE c

\* \d and \s of the re module, on the characters that occur
Digits == {"0", "1", "2", "3", "4", "5", "6", "7", "8", "9"}
Spaces == {" "}
IsDigit(c) == c \in Digits

\* The literal lit (lower case) stands at position i of msg; re.IGNORECASE.
LitAt(msg, i, lit) ==
    /\ i >= 1
    /\ i + Len(lit) - 1 <= Len(msg)
    /\ \A k \in 1..Len(lit) : Lower(msg[i + k - 1]) = lit[k]

\* The end of the longest run of characters of class cls that starts at i
\* (i - 1 if the run is empty).
RunEnd(msg, i, cls) ==
    CHOOSE j \in (i - 1)..Len(msg) :
        /\ \A k \in i..j : msg[k] \in cls
        /\ j = Len(msg) \/ msg[j + 1] \notin cls

\* A pattern: alternative keywords, \s* after them or not, then a literal,
\* then the group (\d+).
Pattern(heads, ws, lit) == [heads |-> heads, ws |-> ws, lit |-> lit]

patterns_noCB ==
    {Pattern({<<>>}, FALSE, <<"#">>),
     Pattern({<<>>}, FALSE, <<"i", "t", "e", "m", "-">>),
     Pattern({<<"f", "i", "x">>, <<"f", "i", "x", "e", "s">>,
              <<"c", "l", "o", "s", "e">>, <<"c", "l", "o", "s", "e", "s">>,
              <<"r", "e", "s", "o", "l", "v", "e">>,
              <<"r", "e", "s", "o", "l", "v", "e", "s">>},
             TRUE, <<"#">>),
     Pattern({<<"r", "e", "f">>, <<"r", "e", "f", "s">>,
              <<"r", "e", "f", "e", "r", "e", "n", "c", "e">>,
              <<"r", "e", "f", "e", "r", "e", "n", "c", "e", "s">>},
             TRUE, <<"#">>)}

\* extract_work_item_references: patterns
patterns ==
    {Pattern({<<>>}, FALSE, <<"#">>),
     Pattern({<<>>}, FALSE, <<"c", "b", "-">>),
     Pattern({<<>>}, FALSE, <<"i", "t", "e", "m", "-">>),
     Pattern({<<"f", "i", "x">>, <<"f", "i", "x", "e", "s">>,
              <<"c", "l", "o", "s", "e">>, <<"c", "l", "o", "s", "e", "s">>,
              <<"r", "e", "s", "o", "l", "v", "e">>,
              <<"r", "e", "s", "o", "l", "v", "e", "s">>},
             TRUE, <<"#">>),
     Pattern({<<"r", "e", "f">>, <<"r", "e", "f", "s">>,
              <<"r", "e", "f", "e", "r", "e", "n", "c", "e">>,
              <<"r", "e", "f", "e", "r", "e", "n", "c", "e", "s">>},
             TRUE, <<"#">>)}

\* The matches of pat that start at position i: where each ends and what
\* its group holds.
MatchesAt(pat, msg, i) ==
    {[end |-> RunEnd(msg, q + Len(pat.lit), Digits),
      group |-> SubSeq(msg, q + Len(pat.lit),
                       RunEnd(msg, q + Len(pat.lit), Digits))] :
        q \in {q \in 1..Len(msg) :
                \E h \in pat.heads :
                    /\ LitAt(msg, i, h)
                    /\ q = (IF pat.ws THEN RunEnd(msg, i + Len(h), Spaces) + 1
                            ELSE i + Len(h))
                    /\ LitAt(msg, q, pat.lit)
                    /\ q + Len(pat.lit) <= Len(msg)
                    /\ IsDigit(msg[q + Len(pat.lit)])}}

\* re.findall(pattern, msg, re.IGNORECASE): the groups of the
\* non-overlapping matches, scanning from position i
RECURSIVE FindAllFrom(_, _, _)
FindAllFrom(pat, msg, i) ==
    IF i > Len(msg) THEN {}
    ELSE IF MatchesAt(pat, msg, i) # {}
    THEN LET m == CHOOSE m \in MatchesAt(pat, msg, i) : TRUE
         IN {m.group} \cup FindAllFrom(pat, msg, m.end + 1)
    ELSE FindAllFrom(pat, msg, i + 1)

\* CommitReferenceUpdater.extract_work_item_references, as a set
extract_work_item_references(commit_message) ==
    UNION {FindAllFrom(pat, commit_message, 1) : pat \in patterns}

\* keyword in self.commit_message.lower()
Contains(msg, kw) == \E i \in 1..Len(msg) : LitAt(msg, i, kw)

MsgChars == {"#", "-", "1", "2", "c", "B"}

NamedMessages ==
    {<<"F", "i", "x", "e", "s", " ", "#", "4", "2", " ", "a", "n", "d", " ", "r", "e", "f", "s", " ", "C", "B", "-", "7">>,
     <<"c", "l", "o", "s", "e", "s", " ", "I", "T", "E", "M", "-", "3">>,
     <<"c", "o", "m", "p", "l", "e", "t", "e", "d", " ", "#", "5">>,
     <<"f", "i", "x", " ", "#", "1">>,
     <<"p", "r", "e", "f", "i", "x", "e", "s", " ", "J", "I", "R", "A", "-", "1", "2">>,
     <<"r", "e", "s", "o", "l", "v", "e", "s", " ", "#", "8", ",", " ", "#", "9">>}

Messages == SeqsUpTo(MsgChars, MaxMsg) \cup NamedMessages


\* Status names a work item can carry on the remote; "" is an item whose
\* answer has no status name.
ItemStatusNames == {"", "New", "Closed", "Resolved", "Done", "Completed"}

\* str.lower() on the status names
StatusLower(name) ==
    CASE name = "New" -> "new"
      [] name = "Closed" -> "closed"
      [] name = "Resolved" -> "resolved"
      [] name = "Done" -> "done"
      [] name = "Completed" -> "completed"
      [] OTHER -> name

IsFinalState_never(current_status) == FALSE

\* current_status not in ['closed', 'resolved', 'done', 'completed']
IsFinalState(current_status) ==
    current_status \in {"closed", "resolved", "done", "completed"}

kw_fixes == <<"f", "i", "x", "e", "s">>
kw_closes == <<"c", "l", "o", "s", "e", "s">>
kw_resolves == <<"r", "e", "s", "o", "l", "v", "e", "s">>
kw_completed == <<"c", "o", "m", "p", "l", "e", "t", "e", "d">>

\* any(keyword in self.commit_message.lower() for keyword in [...])
IndicatesCompletion(msg) ==
    \E kw \in {kw_fixes, kw_closes, kw_resolves, kw_completed} : Contains(msg, kw)

\* update_work_item_status: new_status
NewStatus(msg) ==
    IF \E kw \in {kw_fixes, kw_closes, kw_resolves} : Contains(msg, kw)
    THEN Some("Resolved")
    ELSE IF Contains(msg, kw_completed) THEN Some("Done")
    ELSE None

CommentStatuses == {200, 201, 500, Raised}
GetAnswers ==
    {[status |-> 200, name |-> n] : n \in ItemStatusNames}
        \cup {[status |-> st, name |-> ""] : st \in {404, Raised}}
PutStatuses == {200, 500, Raised}
RefStatuses == {201, 500, Raised}

LinkCall(call, item, status, name) ==
    [call |-> call, item |-> item, status |-> status, name |-> name]

AfterItem_stopOnFailure(rest, calls) ==
    linker' = [linker EXCEPT
                !.pc = IF rest = {} \/ calls[Len(calls)].status \notin {200, 201}
                       THEN "ref" ELSE "comment",
                !.todo = rest, !.cur = None, !.calls = calls]

\* The step after one work item is finished: the next item of the loop, or
\* create_commit_reference after the last.
AfterItem(rest, calls) ==
    linker' = [linker EXCEPT !.pc = IF rest = {} THEN "ref" ELSE "comment",
                             !.todo = rest, !.cur = None, !.calls = calls]

\* run: work_items = self.extract_work_item_references()
ExtractRefs ==
    /\ linker.pc = "extract"
    /\ UNCHANGED <<webhookVars, resolver, notifier, auth, sync, validator>>
    /\ LET work_items == extract_work_item_references(linker.commit_message) IN
       linker' = [linker EXCEPT !.pc = IF work_items = {} THEN "ref" ELSE "comment",
                                !.work_items = work_items,
                                !.todo = work_items]

\* link_commit_to_work_item: the comment call and what follows it. The list
\* is built from a set, so the loop takes the items in any order.
PostComment ==
    /\ linker.pc = "comment"
    /\ UNCHANGED <<webhookVars, resolver, notifier, auth, sync, validator>>
    /\ \E w \in linker.todo, st \in CommentStatuses :
        LET calls == Append(linker.calls, LinkCall("comment", w, st, "")) IN
        IF st \in {200, 201} /\ IndicatesCompletion(linker.commit_message)
        THEN linker' = [linker EXCEPT !.pc = "get", !.cur = Some(w),
                                      !.calls = calls]
        ELSE AfterItem(linker.todo \ {w}, calls)

\* update_work_item_status: the read of the current status
GetItem ==
    /\ linker.pc = "get"
    /\ UNCHANGED <<webhookVars, resolver, notifier, auth, sync, validator>>
    /\ \E a \in GetAnswers :
        LET w == linker.cur[1]
            calls == Append(linker.calls, LinkCall("get", w, a.status, a.name))
        IN IF /\ a.status = 200
              /\ ~IsFinalState(StatusLower(a.name))
              /\ NewStatus(linker.commit_message) # None
           THEN linker' = [linker EXCEPT !.pc = "put", !.calls = calls]
           ELSE AfterItem(linker.todo \ {w}, calls)

\* update_work_item_status: the status transition
PutStatus ==
    /\ linker.pc = "put"
    /\ UNCHANGED <<webhookVars, resolver, notifier, auth, sync, validator>>
    /\ \E st \in PutStatuses :
        LET w == linker.cur[1] IN
        AfterItem(linker.todo \ {w},
                  Append(linker.calls,
                         LinkCall("put", w, st,
                                  NewStatus(linker.commit_message)[1])))

\* create_commit_reference, then run returns True
CreateCommitReference ==
    /\ linker.pc = "ref"
    /\ UNCHANGED <<webhookVars, resolver, notifier, auth, sync, validator>>
    /\ IF int_raises(linker.project_id)
       THEN \* int() raises before the call, the except returns None
            linker' = [linker EXCEPT !.pc = "done"]
       ELSE \E st \in RefStatuses :
            linker' = [linker EXCEPT !.pc = "done",
                                     !.calls = Append(linker.calls,
                                                      LinkCall("ref", <<>>, st, ""))]

InitLinker ==
    /\ WebhookOff
    /\ resolver = NotRun
    /\ notifier = NotRun
    /\ auth = NotRun
    /\ sync = NotRun
    /\ validator = NotRun
    /\ \E msg \in Messages, pid \in {"digits", "text"} :
        linker = [pc |-> "extract", commit_message |-> msg, project_id |-> pid,
                  work_items |-> {}, todo |-> {}, cur |-> None, calls |-> <<>>]

NextLinker ==
    \/ ExtractRefs
    \/ PostComment
    \/ GetItem
    \/ PutStatus
    \/ CreateCommitReference

SpecLinker == InitLinker /\ [][NextLinker]_vars

LinkerRan == linker.pc \notin {"off", "extract"}

IsLetter(c) == Lower(c) \in {ToLower[u] : u \in DOMAIN ToLower}

\* The digit runs of msg that start at one of the positions starts
RunsAt(msg, starts) ==
    {SubSeq(msg, j, RunEnd(msg, j, Digits)) :
        j \in {j \in starts : IsDigit(msg[j])}}

\* '#<digits>' and '<PREFIX>-<digits>' for any alphabetic prefix
RefsAnyPrefix(msg) ==
    RunsAt(msg, {j \in 1..Len(msg) :
                    \/ LitAt(msg, j - 1, <<"#">>)
                    \/ LitAt(msg, j - 1, <<"-">>) /\ j >= 3 /\ IsLetter(msg[j - 2])})

\* '#<digits>', 'CB-<digits>' and 'ITEM-<digits>', in either case
RefsKnownPrefix(msg) ==
    RunsAt(msg, {j \in 1..Len(msg) :
                    \E lit \in {<<"#">>, <<"c", "b", "-">>, <<"i", "t", "e", "m", "-">>} :
                        LitAt(msg, j - Len(lit), lit)})

Example_FixesRefs ==
    <<"F", "i", "x", "e", "s", " ", "#", "4", "2", " ", "a", "n", "d", " ",
      "r", "e", "f", "s", " ", "C", "B", "-", "7">>

CallsOf(kind) == {k \in 1..Len(linker.calls) : linker.calls[k].call = kind}

\* C17: for a message with a closing keyword, every work item whose comment
\* call was made also gets its status attempt, whatever the comment call
\* answered.
C17_StatusAttemptIndependent ==
    (linker.pc = "done" /\ IndicatesCompletion(linker.commit_message)) =>
        \A k \in CallsOf("comment") :
            \E g \in CallsOf("get") : linker.calls[g].item = linker.calls[k].item

TerminalStates == {"closed", "resolved", "done"}

\* C18: a status transition is sent for a work item only when the commit
\* message has a closing keyword and the call just before it read that item
\* with status 200 and a current status that is not closed, resolved or done.
C18_NoUpdateOfTerminalItem ==
    linker.pc # "off" =>
        \A k \in CallsOf("put") :
            /\ IndicatesCompletion(linker.commit_message)
            /\ k > 1
            /\ linker.calls[k - 1].call = "get"
            /\ linker.calls[k - 1].item = linker.calls[k].item
            /\ linker.calls[k - 1].status = 200
            /\ StatusLower(linker.calls[k - 1].name) \notin TerminalStates

C18_Witness ==
    /\ linker.pc = "done"
    /\ CallsOf("put") # {}
    /\ \E g \in CallsOf("get") :
        /\ linker.calls[g].status = 200
        /\ StatusLower(linker.calls[g].name) \in TerminalStates
        /\ \A k \in CallsOf("put") : linker.calls[k].item # linker.calls[g].item


\* -------------------------------------------------------- failure notifier
\* What an environment variable can hold: nothing, ASCII text, text with a
\* character outside ASCII; CODEBEAMER_PROJECT_ID: nothing, digits, other text.
CredentialValues == {"unset", "ascii", "nonascii"}
ProjectIdValues == {"unset", "digits", "text"}

\* auth_string.encode('ascii') raises UnicodeEncodeError
encode_ascii_raises(username, password) ==
    username = "nonascii" \/ password = "nonascii"

\* Answers to the ticket creation: the id of the answer's JSON (None when it
\* has none), or an error status, or a raised transport error.
TicketAnswers ==
    {[status |-> st, id |-> i] : st \in {200, 201}, i \in {None, Some(0), Some(7)}}
        \cup {[status |-> st, id |-> None] : st \in {500, Raised}}

Truthy_always(id) == TRUE

\* if ticket_id:
Truthy(id) == id # None /\ id[1] # 0

NotifierCommentStatuses == {200, 201, 500, Raised}

\* notifier = FailureNotifier(): _setup_auth runs outside every try, so the
\* encoding error ends the process with a traceback and exit status 1.
Construct ==
    /\ notifier.pc = "new"
    /\ UNCHANGED <<webhookVars, resolver, linker, auth, sync, validator>>
    /\ IF encode_ascii_raises(notifier.username, notifier.password)
       THEN notifier' = [notifier EXCEPT !.pc = "exited", !.exit = Some(1)]
       ELSE notifier' = [notifier EXCEPT !.pc = "ticket"]

\* run: ticket_id = self.create_failure_ticket()
CreateFailureTicket ==
    /\ notifier.pc = "ticket"
    /\ UNCHANGED <<webhookVars, resolver, linker, auth, sync, validator>>
    /\ IF int_raises(notifier.project_id)
       THEN notifier' = [notifier EXCEPT !.pc = "return"]
       ELSE \E a \in TicketAnswers :
            LET id == IF a.status \in {200, 201} THEN a.id ELSE None IN
            notifier' = [notifier EXCEPT
                            !.pc = IF Truthy(id) THEN "comment" ELSE "return",
                            !.ticket_id = id,
                            !.calls = Append(@, [call |-> "ticket",
                                                 status |-> a.status,
                                                 target |-> None])]

\* run: self.send_notification_comment(ticket_id); run passes a truthy
\* ticket_id, so `if not ticket_id` is false and the comment is posted to
\* /items/{ticket_id}/comments
SendNotificationComment ==
    /\ notifier.pc = "comment"
    /\ UNCHANGED <<webhookVars, resolver, linker, auth, sync, validator>>
    /\ \E st \in NotifierCommentStatuses :
        notifier' = [notifier EXCEPT
                        !.pc = "return",
                        !.calls = Append(@, [call |-> "comment", status |-> st,
                                             target |-> notifier.ticket_id])]

\* run returns True; sys.exit(0)
NotifierExit ==
    /\ notifier.pc = "return"
    /\ UNCHANGED <<webhookVars, resolver, linker, auth, sync, validator>>
    /\ notifier' = [notifier EXCEPT !.pc = "exited", !.exit = Some(0)]

InitNotifier ==
    /\ WebhookOff
    /\ resolver = NotRun
    /\ linker = NotRun
    /\ auth = NotRun
    /\ sync = NotRun
    /\ validator = NotRun
    /\ \E u \in CredentialValues, p \in CredentialValues, pid \in ProjectIdValues :
        notifier = [pc |-> "new", username |-> u, password |-> p,
                    project_id |-> pid, ticket_id |-> None, calls |-> <<>>,
                    exit |-> None]

NextNotifier ==
    \/ Construct
    \/ CreateFailureTicket
    \/ SendNotificationComment
    \/ NotifierExit

SpecNotifier == InitNotifier /\ [][NextNotifier]_vars

\* C19: whatever the configuration and whatever the ticket and comment
\* calls answer, the notifier process exits with status 0.
C19_AlwaysExitsZero ==
    (notifier.pc = "exited") => notifier.exit = Some(0)


\* -------------------------------------------------- session authenticator
\* Answers to the GET of the login page: 200 with or without an anti-forgery
\* token in the page, an error status, a raised transport error.
LoginPageAnswers ==
    {[status |-> 200, csrf |-> c] : c \in BOOLEAN}
        \cup {[status |-> st, csrf |-> FALSE] : st \in {404, 500, Raised}}

\* Answers to the login POST after redirects: the status, whether the
\* session holds a Bearer or JSESSIONID cookie, whether the final URL holds
\* 'login.spr', whether it holds '/cb/user', '/cb/project' or '/cb/main',
\* whether the body holds 'invalid' or 'incorrect'.
LoginAnswers ==
    {[status |-> 200, has_auth_cookies |-> c, on_login |-> l,
      url_success |-> u, failure_phrase |-> f] :
        c \in BOOLEAN, l \in BOOLEAN, u \in BOOLEAN, f \in BOOLEAN}
        \cup {[status |-> st, has_auth_cookies |-> FALSE, on_login |-> FALSE,
               url_success |-> FALSE, failure_phrase |-> FALSE] :
                st \in {401, 500, Raised}}

\* Answers to the GET of the project page after redirects: a session that
\* is not logged in can be sent back to the login page, which answers 200.
ProjectAnswers ==
    {[status |-> 200, on_login |-> l] : l \in BOOLEAN}
        \cup {[status |-> st, on_login |-> FALSE] : st \in {403, 404, 500, Raised}}

\* login_to_codebeamer, step 4: the value returned for a login answer
LoginDecision(a) ==
    IF a.status # 200 THEN FALSE
    ELSE IF a.has_auth_cookies /\ ~a.on_login THEN TRUE
    ELSE IF a.url_success THEN TRUE
    ELSE IF a.failure_phrase THEN FALSE
    ELSE IF a.has_auth_cookies THEN TRUE
    ELSE TRUE

\* test_connectivity: the test on the project page
ProjectAccessible(a) == a.status = 200

\* sync_commits, update_repository_status, handle_branch_events: the base
\* path written into the URL, whatever test_basic_connectivity returned
HardCodedBase == "/rest/v3"

\* One remote call of the run: an Entry and the base path its URL was built on
SyncEntry(call, status, target, rev, outcome, base) ==
    [call |-> call, status |-> status, target |-> target, rev |-> rev,
     outcome |-> outcome, base |-> base]

\* run: the check of the required environment variables
CheckEnvironment ==
    /\ auth.pc = "env"
    /\ UNCHANGED <<webhookVars, resolver, linker, notifier, sync, validator>>
    /\ auth' = [auth EXCEPT !.pc = IF auth.env_complete THEN "page" ELSE "failed"]

\* login_to_codebeamer, step 1
GetLoginPage ==
    /\ auth.pc = "page"
    /\ UNCHANGED <<webhookVars, resolver, linker, notifier, sync, validator>>
    /\ \E a \in LoginPageAnswers :
        auth' = [auth EXCEPT !.pc = IF a.status = 200 THEN "login" ELSE "failed",
                             !.page = Some(a)]

\* login_to_codebeamer, steps 2 to 4
PostLogin ==
    /\ auth.pc = "login"
    /\ UNCHANGED <<webhookVars, resolver, linker, notifier, sync, validator>>
    /\ \E a \in LoginAnswers :
        auth' = [auth EXCEPT !.pc = IF LoginDecision(a) THEN "project" ELSE "failed",
                             !.login = Some(a)]

\* test_connectivity after the login, and run going on when it returns True
GetProjectPage ==
    /\ auth.pc = "project"
    /\ UNCHANGED <<webhookVars, resolver, linker, notifier, sync, validator>>
    /\ \E a \in ProjectAnswers :
        auth' = [auth EXCEPT !.pc = IF ProjectAccessible(a) THEN "proceeds"
                                    ELSE "failed",
                             !.project = Some(a)]

InitAuth ==
    /\ WebhookOff
    /\ resolver = NotRun
    /\ linker = NotRun
    /\ notifier = NotRun
    /\ sync = NotRun
    /\ validator = NotRun
    /\ \E e \in BOOLEAN :
        auth = [pc |-> "env", env_complete |-> e, page |-> None,
                login |-> None, project |-> None]

NextAuth ==
    \/ CheckEnvironment
    \/ GetLoginPage
    \/ PostLogin
    \/ GetProjectPage

SpecAuth == InitAuth /\ [][NextAuth]_vars

\* A login answer with nothing that indicates failure and nothing that
\* establishes success: no session cookie, no success URL, no failure phrase.
AmbiguousLogin(a) ==
    /\ a.status = 200
    /\ ~a.has_auth_cookies
    /\ ~a.url_success
    /\ ~a.failure_phrase

\* C20: a run that proceeds as authenticated after an ambiguous login answer
\* has fetched the protected project page itself: the request answered 200
\* and was not sent back to the login page.
C20_AmbiguousLoginCorroborated ==
    (auth.pc = "proceeds" /\ AmbiguousLogin(auth.login[1])) =>
        /\ auth.project # None
        /\ auth.project[1].status = 200
        /\ ~auth.project[1].on_login


\* ------------------------------------------------- CodebeamerSync, one run
MaxSyncBatch == 2   \* most commits repo.iter_commits hands to sync_commits

\* The state of the webhook server, which a run of the script leaves alone.
webhookLocal == <<webhook_secret, req, pc, sigResult, log, scm_repo_id,
                  success, response>>

\* GITHUB_EVENT_NAME
SyncEvents == {"push", "create", "delete", "pull_request"}

\* How many repositories one answer of the listing holds when the remote
\* pages it; the code issues one GET without page parameters.
PageSize == 1

FirstPage(rs) == {r \in rs : r.id <= PageSize}

\* Answers to the GET of the repository listing: the whole listing or its
\* first page, a body that is no JSON, an error status, a raised error.
ListAnswers ==
    {[status |-> 200, parseable |-> TRUE, page |-> pg] :
        pg \in {repos, FirstPage(repos)}}
    \cup {[status |-> 200, parseable |-> FALSE, page |-> {}]}
    \cup {[status |-> st, parseable |-> FALSE, page |-> {}] :
            st \in {404, 500, Raised}}

\* get_or_create_scm_repository: alternative_urls
alternative_urls == <<"project/scmRepositories", "projects/repositories",
                      "scmRepositories?projectId">>

AltStatuses == {200, 404, Raised}
UpdateStatuses == {200, 500, Raised}

NextStep_reresolve(s) ==
    IF s.event = "push" /\ s.resolutions < 2 THEN "get"
    ELSE IF s.event = "push"
    THEN (IF s.commits = <<>> THEN "status" ELSE "commit")
    ELSE IF s.event \in {"create", "delete"} THEN "branch"
    ELSE "return"

\* run: what follows get_or_create_scm_repository once it returned an id
NextStep(s) ==
    IF s.event = "push"
    THEN (IF s.commits = <<>> THEN "status" ELSE "commit")
    ELSE IF s.event \in {"create", "delete"} THEN "branch"
    ELSE "return"

Returned_alwaysTrue(s, id, calls) ==
    [s EXCEPT !.scm_repo_id = id,
              !.calls = calls,
              !.pc = IF id = 0 THEN "exited" ELSE NextStep(s),
              !.result = IF id = 0 THEN Some(TRUE) ELSE None]

\* get_or_create_scm_repository returned id (0 = None) after the calls
Returned(s, id, calls) ==
    [s EXCEPT !.scm_repo_id = id,
              !.calls = calls,
              !.pc = IF id = 0 THEN "exited" ELSE NextStep(s),
              !.result = IF id = 0 THEN Some(FALSE) ELSE None]

\* run: the check of the required environment variables
SyncCheckEnvironment ==
    /\ sync.pc = "env"
    /\ UNCHANGED <<webhookLocal, remoteVars, resolver, linker, notifier, auth,
                   validator>>
    /\ sync' = IF sync.env_complete THEN [sync EXCEPT !.pc = "get"]
               ELSE [sync EXCEPT !.pc = "exited", !.result = Some(FALSE)]

\* get_or_create_scm_repository: api_version = self.test_basic_connectivity()
GetOrCreate ==
    /\ sync.pc = "get"
    /\ UNCHANGED <<webhookLocal, remoteVars, linker, notifier, auth,
                   validator>>
    /\ resolver' = [pc |-> "probe", probes |-> <<>>, result |-> None]
    /\ sync' = [sync EXCEPT !.pc = "resolve", !.resolutions = @ + 1]

\* get_or_create_scm_repository: test_basic_connectivity returned
ResolveReturned ==
    /\ sync.pc = "resolve"
    /\ resolver.pc = "done"
    /\ UNCHANGED <<webhookLocal, remoteVars, resolver, linker, notifier, auth,
                   validator>>
    /\ sync' = IF resolver.result = None
               THEN Returned(sync, 0, sync.calls)
               ELSE [sync EXCEPT !.pc = "list", !.api_version = resolver.result]

\* get_or_create_scm_repository: the listing and the search in it
SyncList ==
    /\ sync.pc = "list"
    /\ UNCHANGED <<webhookLocal, remoteVars, resolver, linker, notifier, auth,
                   validator>>
    /\ \E a \in ListAnswers :
        LET calls == Append(sync.calls, SyncEntry("list", a.status, 0, 0, "-",
                                            sync.api_version[1]))
            found == {r \in a.page : r.url = sync.url}
        IN IF a.status = 200 /\ ~a.parseable THEN sync' = Returned(sync, 0, calls)
           ELSE IF a.status = 200 /\ found # {}
           THEN \E r \in found : sync' = Returned(sync, r.id, calls)
           ELSE IF a.status = 200
           THEN sync' = [sync EXCEPT !.pc = "create", !.calls = calls]
           ELSE IF a.status = 404
           THEN sync' = [sync EXCEPT !.pc = "alt", !.calls = calls]
           ELSE sync' = Returned(sync, 0, calls)

\* get_or_create_scm_repository: one iteration over alternative_urls
SyncAlternative ==
    /\ sync.pc = "alt"
    /\ UNCHANGED <<webhookLocal, remoteVars, resolver, linker, notifier, auth,
                   validator>>
    /\ \E st \in AltStatuses :
        LET i == Cardinality({k \in 1..Len(sync.calls) :
                                sync.calls[k].call = "alt"}) + 1
            calls == Append(sync.calls, SyncEntry("alt", st, 0, 0,
                                            alternative_urls[i],
                                            sync.api_version[1]))
        IN IF st = 200
           THEN sync' = [sync EXCEPT !.pc = "create", !.calls = calls]
           ELSE IF st = Raised \/ i = Len(alternative_urls)
           THEN sync' = Returned(sync, 0, calls)
           ELSE sync' = [sync EXCEPT !.calls = calls]

\* get_or_create_scm_repository: the creation call
SyncCreate ==
    /\ sync.pc = "create"
    /\ UNCHANGED <<webhookLocal, commitRecords, branches, resolver, linker,
                   notifier, auth,
                   validator>>
    /\ IF int_raises(sync.project_id)
       THEN sync' = Returned(sync, 0, sync.calls) /\ UNCHANGED <<repos, nextRepoId>>
       ELSE \E status \in CreateStatuses(sync.url) :
            /\ IF status = 201
               THEN /\ repos' = repos \cup {[id |-> nextRepoId, url |-> sync.url]}
                    /\ nextRepoId' = nextRepoId + 1
               ELSE UNCHANGED <<repos, nextRepoId>>
            /\ sync' = Returned(sync,
                           IF status = Raised THEN 0
                           ELSE CreateResult(status, nextRepoId),
                           Append(sync.calls,
                                  SyncEntry("create", status,
                                        IF status = 201 THEN nextRepoId ELSE 0,
                                        0, "-", sync.api_version[1])))

\* sync_commits: one iteration of the loop over the commits; a raised call
\* ends the loop in the except, and run goes on
SyncCommit ==
    /\ sync.pc = "commit"
    /\ UNCHANGED <<webhookLocal, repos, nextRepoId, branches, resolver, linker,
                   notifier, auth,
                   validator>>
    /\ LET i == Cardinality({k \in 1..Len(sync.calls) :
                                sync.calls[k].call = "commit"}) + 1
           rev == sync.commits[i]
           id == sync.scm_repo_id
       IN \E status \in CommitStatuses(id, rev) :
            /\ commitRecords' =
                    IF status \in {201, 202}
                    THEN [commitRecords EXCEPT ![<<id, rev>>] = @ + 1]
                    ELSE commitRecords
            /\ sync' = [sync EXCEPT
                    !.calls = Append(@, SyncEntry("commit", status, id, rev,
                                    IF status = Raised THEN "raised"
                                    ELSE ClassifyCommit(status),
                                    HardCodedBase)),
                    !.pc = IF status = Raised \/ i = Len(sync.commits)
                           THEN "status" ELSE "commit"]

\* update_repository_status
SyncUpdateStatus ==
    /\ sync.pc = "status"
    /\ UNCHANGED <<webhookLocal, remoteVars, resolver, linker, notifier, auth,
                   validator>>
    /\ \E status \in UpdateStatuses :
        sync' = [sync EXCEPT
                    !.calls = Append(@, SyncEntry("status", status,
                                        sync.scm_repo_id, 0, "-",
                                        HardCodedBase)),
                    !.pc = "return"]

\* handle_branch_events
SyncBranch ==
    /\ sync.pc = "branch"
    /\ UNCHANGED <<webhookLocal, repos, nextRepoId, commitRecords, resolver,
                   linker, notifier, auth,
                   validator>>
    /\ LET id == sync.scm_repo_id IN
       \E status \in BranchStatuses(sync.event, id) :
            /\ branches' =
                    IF status = 201 THEN branches \cup {<<id, BranchName>>}
                    ELSE IF status = 204 THEN branches \ {<<id, BranchName>>}
                    ELSE branches
            /\ sync' = [sync EXCEPT
                    !.calls = Append(@, SyncEntry("branch", status, id, 0, "-",
                                                  HardCodedBase)),
                    !.pc = "return"]

\* run returns True; sys.exit(0)
SyncReturn ==
    /\ sync.pc = "return"
    /\ UNCHANGED <<webhookLocal, remoteVars, resolver, linker, notifier, auth,
                   validator>>
    /\ sync' = [sync EXCEPT !.pc = "exited", !.result = Some(TRUE)]

SyncRemotes ==
    {{}, {[id |-> 1, url |-> "u1"]},
     {[id |-> 1, url |-> "u2"], [id |-> 2, url |-> "u1"]}}

InitSync ==
    /\ webhook_secret = ""
    /\ req = [d \in Deliveries |->
                Request("zero", <<>>, None, "bad",
                        [event |-> "ping", url |-> "u1", commits |-> <<>>,
                         ref_type |-> "branch"])]
    /\ InitLocal({})
    /\ repos \in SyncRemotes
    /\ nextRepoId = 3
    /\ commitRecords = [k \in RepoIds \X Revs |-> 0]
    /\ branches \in {{}, {<<1, BranchName>>}}
    /\ resolver = NotRun
    /\ linker = NotRun
    /\ notifier = NotRun
    /\ auth = NotRun
    /\ validator = NotRun
    /\ \E e \in BOOLEAN, pid \in {"digits", "text"}, ev \in SyncEvents,
          c \in Batches(MaxSyncBatch) :
        /\ ev # "push" => c = <<>>
        /\ sync = [pc |-> "env", env_complete |-> e, project_id |-> pid,
                   event |-> ev, url |-> "u1", commits |-> c,
                   resolutions |-> 0, api_version |-> None,
                   scm_repo_id |-> 0, calls |-> <<>>, result |-> None]

NextSync ==
    \/ SyncCheckEnvironment
    \/ GetOrCreate
    \/ Probe
    \/ ResolveReturned
    \/ SyncList
    \/ SyncAlternative
    \/ SyncCreate
    \/ SyncCommit
    \/ SyncUpdateStatus
    \/ SyncBranch
    \/ SyncReturn

SpecSync == InitSync /\ [][NextSync]_vars

SyncCalls(kind) == {k \in 1..Len(sync.calls) : sync.calls[k].call = kind}

\* C24: one run resolves the endpoint at most once: test_basic_connectivity
\* is entered at most one time, it probes each candidate at most once, and
\* no probe follows the first call made with the resolved endpoint.
C24_ResolvedOncePerRun ==
    sync.pc # "off" =>
        /\ sync.resolutions <= 1
        /\ resolver.pc # "off" =>
            /\ Len(resolver.probes) <= Len(api_versions)
            /\ \A j, k \in 1..Len(resolver.probes) :
                resolver.probes[j].path = resolver.probes[k].path => j = k
        /\ sync.calls # <<>> =>
            /\ resolver.pc = "done"
            /\ sync.api_version = resolver.result
            /\ sync.api_version # None

C24_Witness ==
    /\ sync.pc = "exited" /\ sync.result = Some(TRUE)
    /\ sync.event = "push"
    /\ Cardinality(SyncCalls("commit")) = 2
    /\ SyncCalls("create") # {}
    /\ sync.resolutions = 1
    /\ Len(resolver.probes) = 3


\* The repositories with the run's source URL that the run did not create.
PreExisting ==
    {r \in Matching(sync.url) :
        \A k \in SyncCalls("create") : sync.calls[k].target # r.id}

\* C28: when the remote holds a repository with the run's source URL, on
\* whatever page of the listing, a resolve whose listing call answered 200
\* issues no creation call and returns no other id than that repository's.
C28_LookupExhaustsPages ==
    (/\ sync.pc # "off"
     /\ \E k \in SyncCalls("list") : sync.calls[k].status = 200
     /\ PreExisting # {})
        => /\ SyncCalls("create") = {}
           /\ sync.scm_repo_id \in {0} \cup {r.id : r \in PreExisting}


\* login_to_codebeamer returned True for the login answer.
LoginReportedSuccess ==
    /\ auth.pc # "off"
    /\ auth.login # None
    /\ auth.pc \in {"project", "proceeds"} \/ auth.project # None

\* C25: a login is reported successful only when the answer carries a
\* session cookie, did not land on the login path and holds no failure
\* phrase.
C25_AllSignalsRequired ==
    LoginReportedSuccess =>
        /\ auth.login[1].has_auth_cookies
        /\ ~auth.login[1].on_login
        /\ ~auth.login[1].failure_phrase

\* What the failed commits of a finished push are: the commit-record calls
\* answered with neither a 2xx status nor 409, or raised.
FailedCommits(d) ==
    {i \in Calls(d, "commit") :
        log[d][i].status \notin {200, 201, 202, 204, 409}}

\* C26: what a push reports at the end of its batch tells its failed
\* commits: the handler's result is success exactly when no commit-record
\* call of the batch failed.
C26_FailuresReportedAtEnd ==
    \A d \in Deliveries :
        (pc[d] = "done" /\ IsPush(d) /\ Calls(d, "commit") # {}) =>
            (success[d] = Some(TRUE) <=> FailedCommits(d) = {})

\* C27: no state-changing call is repeated within a delivery: at most one
\* repository-creation call and one branch call per event, and the k-th
\* commit-record call is the only one for the k-th commit of the batch.
C27_NoRetryOfMutatingCalls ==
    \A d \in Deliveries :
        /\ Cardinality(Calls(d, "create")) <= 1
        /\ Cardinality(Calls(d, "branch")) <= 1
        /\ Cardinality(Calls(d, "commit")) <= Len(req[d].commits)
        /\ \A i \in Calls(d, "commit") :
            LET k == Cardinality({j \in Calls(d, "commit") : j <= i})
            IN log[d][i].rev = req[d].commits[k]

C27_Witness ==
    \E d \in Deliveries :
        /\ pc[d] = "done" /\ IsPush(d) /\ Len(req[d].commits) = 2
        /\ \E i \in Calls(d, "create") : log[d][i].status = 201
        /\ Cardinality(Calls(d, "commit")) = 2
        /\ \A i \in Calls(d, "commit") : log[d][i].status = 500


\* serve_forever runs every accepted request to its response.
SpecBatchFair == InitBatch /\ [][Next]_vars /\ WF_vars(Next)

\* C29: a delivery whose handler reported failure leads to a run of the
\* failure notifier.
C29_FailureLeadsToNotifier ==
    \A d \in Deliveries :
        (pc[d] = "done" /\ success[d] = Some(FALSE)) ~> (notifier.pc # "off")


CommentsFor(w) == {k \in CallsOf("comment") : linker.calls[k].item = w}

\* C30: every extracted reference gets exactly one comment call, whatever
\* the calls for the other references answered, and the commit reference is
\* created after them.
C30_OneCommentPerReference ==
    linker.pc # "off" =>
        /\ \A k \in CallsOf("comment") : linker.calls[k].item \in linker.work_items
        /\ \A w \in linker.work_items : Cardinality(CommentsFor(w)) <= 1
        /\ linker.pc \in {"ref", "done"} =>
            \A w \in linker.work_items : Cardinality(CommentsFor(w)) = 1
        /\ (linker.pc = "done" /\ ~int_raises(linker.project_id)) =>
            /\ Cardinality(CallsOf("ref")) = 1
            /\ \A k \in CallsOf("ref") : k = Len(linker.calls)

C30_Witness ==
    /\ linker.pc = "done"
    /\ Cardinality(linker.work_items) = 2
    /\ linker.calls[1].call = "comment" /\ linker.calls[1].status = Raised
    /\ Cardinality(CallsOf("comment")) = 2
    /\ CallsOf("ref") # {}


\* ------------------------------------------- properties of the later calls

\* C31: every call of a run made after the endpoint was resolved is built on
\* the base path the resolver selected for that run.
C31_CallsUseResolvedBase ==
    sync.pc # "off" =>
        \A k \in 1..Len(sync.calls) :
            Some(sync.calls[k].base) = sync.api_version

\* C32: every POST ends with exactly one status passed to send_response, on
\* every path through do_POST, a write that raises after the status included.
C32_ExactlyOneStatus ==
    \A d \in Deliveries : pc[d] = "done" => Len(response[d]) = 1

\* C33: the boundary checks have a fixed precedence: an empty body is
\* answered 400 before the signature is examined; a delivery with an invalid
\* signature and an unparseable body is answered 401; and 400 for invalid
\* JSON is given only to deliveries whose signature check passed.
C33_BoundaryPrecedence ==
    \A d \in Deliveries :
        pc[d] = "done" =>
            /\ req[d].clen = "zero"
                    => response[d] = <<400>> /\ sigResult[d] = None
            /\ (WrongSignature(d) /\ req[d].json = "bad")
                    => response[d] = <<401>>
            /\ (req[d].clen = "ok" /\ response[d] = <<400>>)
                    => SignaturePassed(d) /\ req[d].json = "bad"

\* The delivery's event type is ping or one that do_POST has no handler for.
NotDispatched(d) ==
    /\ pc[d] # "off"
    /\ req[d].event \notin {"push", "create", "delete", "pull_request"}

\* C34: a ping event and any event other than push, create, delete and
\* pull_request issue no remote call, leave the remote mirror unchanged and,
\* once signature and JSON are accepted, are answered 200.
C34_OtherEventsAreInert ==
    [][\A d \in Deliveries :
        (NotDispatched(d) /\ pc'[d] # pc[d]) =>
            /\ log'[d] = <<>>
            /\ UNCHANGED remoteVars
            /\ (sigResult'[d] = Some(TRUE) /\ req[d].json \in {"ok", "nondict"})
                    => /\ pc'[d] = "done"
                       /\ response'[d] = <<200>>
                       /\ success'[d] = Some(TRUE)]_vars

C34_Witness ==
    \E d \in Deliveries :
        /\ req[d].event = "ping" /\ pc[d] = "done"
        /\ webhook_secret # "" /\ SignaturePassed(d)
        /\ response[d] = <<200>> /\ log[d] = <<>>
        /\ repos # {}

\* C35: a pull_request event is answered 200 also when its repository
\* reconcile returns no id, and it issues no remote call besides the
\* reconcile's listing and at most one creation call.
C35_PullRequestAlwaysSucceeds ==
    \A d \in Deliveries :
        (pc[d] # "off" /\ req[d].event = "pull_request") =>
            /\ Calls(d, "commit") = {} /\ Calls(d, "branch") = {}
            /\ Cardinality(Calls(d, "list")) <= 1
            /\ Cardinality(Calls(d, "create")) <= 1
            /\ \A i \in Calls(d, "create") :
                    i = 2 /\ log[d][1].call = "list"
            /\ (PassedBoundary(d) /\ pc[d] = "done")
                    => response[d] = <<200>> /\ success[d] = Some(TRUE)

C35_Witness ==
    \E d \in Deliveries :
        /\ req[d].event = "pull_request" /\ pc[d] = "done"
        /\ ReconcileFailed(d)
        /\ \E i \in Calls(d, "create") : log[d][i].status = 500
        /\ response[d] = <<200>> /\ success[d] = Some(TRUE)

NotifierCalls(kind) ==
    {k \in 1..Len(notifier.calls) : notifier.calls[k].call = kind}

\* C36: one run of the notifier issues at most one ticket-creation call and
\* at most one comment call; a comment call follows a ticket creation that
\* was answered with success and an id, and targets that id; after a failed
\* ticket creation there is no second ticket call and no comment call.
C36_OneTicketOneComment ==
    notifier.pc # "off" =>
        /\ Cardinality(NotifierCalls("ticket")) <= 1
        /\ Cardinality(NotifierCalls("comment")) <= 1
        /\ \A c \in NotifierCalls("comment") :
            /\ \E t \in NotifierCalls("ticket") :
                    t < c /\ notifier.calls[t].status \in {200, 201}
            /\ notifier.ticket_id \notin {None, Some(0)}
            /\ notifier.calls[c].target = notifier.ticket_id
        /\ (\E t \in NotifierCalls("ticket") :
                notifier.calls[t].status \notin {200, 201})
                    => Len(notifier.calls) = 1

C36_Witness ==
    /\ notifier.pc = "exited"
    /\ Len(notifier.calls) = 2
    /\ notifier.calls[1] = [call |-> "ticket", status |-> 201, target |-> None]
    /\ notifier.calls[2] = [call |-> "comment", status |-> 500,
                            target |-> Some(7)]

\* C37: the run reports success exactly when the required configuration is
\* present and the mirror repository was resolved, whatever the commit,
\* status-update and branch calls answered; with missing configuration it
\* fails before any probe or remote call.
C37_ResultFromConfigAndMirror ==
    sync.pc = "exited" =>
        /\ sync.result \in {Some(TRUE), Some(FALSE)}
        /\ sync.result = Some(TRUE)
                <=> (sync.env_complete /\ sync.scm_repo_id # 0)
        /\ sync.scm_repo_id # 0 => \E r \in repos : r.id = sync.scm_repo_id
        /\ ~sync.env_complete
                => /\ sync.calls = <<>>
                   /\ resolver.pc = "off"
                   /\ sync.resolutions = 0

C37_Witness ==
    /\ sync.pc = "exited" /\ sync.result = Some(TRUE)
    /\ \E k \in SyncCalls("commit") : sync.calls[k].status = 500
    /\ \E k \in SyncCalls("commit") : sync.calls[k].status = Raised
    /\ \E k \in SyncCalls("status") : sync.calls[k].status = 500


\* ----------------------------------------------------------- sync validator
\* run_validation: the names under which the checks are recorded, in order
check_names == <<"Login", "Project Connectivity", "User Permissions",
                 "SCM Repository", "Commit Sync">>

\* Answers to the login POST after redirects: the status, whether the
\* session holds a Bearer or JSESSIONID cookie, whether the final URL holds
\* 'login.spr'.
ValidatorLoginAnswers ==
    {[status |-> 200, has_auth_cookies |-> c, on_login |-> l] :
        c \in BOOLEAN, l \in BOOLEAN}
        \cup {[status |-> st, has_auth_cookies |-> FALSE, on_login |-> FALSE] :
                st \in {500, Raised}}

\* Answers to the GET of a project or repository page: the status and
\* whether the page text holds one of the words the check looks for.
PageAnswers ==
    {[status |-> 200, indicator |-> i] : i \in BOOLEAN}
        \cup {[status |-> st, indicator |-> FALSE] : st \in {404, Raised}}

\* login_to_codebeamer: the value returned after the login POST
login_to_codebeamer(a) ==
    a.status = 200 /\ a.has_auth_cookies /\ ~a.on_login

\* test_project_connectivity: the value returned
test_project_connectivity(a) == a.status = 200

\* test_user_permissions: the value returned
test_user_permissions(a) == a.status = 200 /\ a.indicator

\* test_scm_repository_access: the value returned; a page without repository
\* content still counts
test_scm_repository_access(a) == a.status = 200

\* validate_commit_sync: the value returned when commit information is set
validate_commit_sync(a) == a.status = 200

\* run_validation: validation_results.append((name, success)) and the call
\* the check made
Recorded(v, call, status, passed) ==
    [v EXCEPT !.calls = Append(@, [call |-> call, status |-> status]),
              !.validation_results =
                    Append(@, [name |-> check_names[Len(@) + 1],
                               success |-> passed])]

\* run_validation: passed_count
passed_count(results) ==
    Cardinality({k \in 1..Len(results) : results[k].success})

Acceptable_onlyAll(passed, total) == passed = total

\* run_validation: the verdict on passed_count
Acceptable(passed, total) == passed = total \/ passed >= 3

\* login_to_codebeamer: the GET of the login page
ValidatorGetLoginPage ==
    /\ validator.pc = "login_page"
    /\ UNCHANGED <<webhookVars, resolver, linker, notifier, auth, sync>>
    /\ \E st \in {200, 500, Raised} :
        validator' =
            IF st = 200
            THEN [validator EXCEPT
                    !.pc = "login_post",
                    !.calls = Append(@, [call |-> "login_page", status |-> st])]
            ELSE [Recorded(validator, "login_page", st, FALSE) EXCEPT
                    !.pc = "exited", !.result = Some(FALSE)]

\* login_to_codebeamer: the login POST; run_validation returns False when
\* the login failed
ValidatorPostLogin ==
    /\ validator.pc = "login_post"
    /\ UNCHANGED <<webhookVars, resolver, linker, notifier, auth, sync>>
    /\ \E a \in ValidatorLoginAnswers :
        LET ok == login_to_codebeamer(a)
            v == Recorded(validator, "login", a.status, ok)
        IN validator' = IF ok THEN [v EXCEPT !.pc = "project"]
                        ELSE [v EXCEPT !.pc = "exited", !.result = Some(FALSE)]

\* run_validation, step 2
TestProjectConnectivity ==
    /\ validator.pc = "project"
    /\ UNCHANGED <<webhookVars, resolver, linker, notifier, auth, sync>>
    /\ \E a \in PageAnswers :
        validator' = [Recorded(validator, "project", a.status,
                               test_project_connectivity(a))
                        EXCEPT !.pc = "permissions"]

\* run_validation, step 3
TestUserPermissions ==
    /\ validator.pc = "permissions"
    /\ UNCHANGED <<webhookVars, resolver, linker, notifier, auth, sync>>
    /\ \E a \in PageAnswers :
        validator' = [Recorded(validator, "permissions", a.status,
                               test_user_permissions(a))
                        EXCEPT !.pc = "scm"]

\* run_validation, step 4
TestScmRepositoryAccess ==
    /\ validator.pc = "scm"
    /\ UNCHANGED <<webhookVars, resolver, linker, notifier, auth, sync>>
    /\ \E a \in PageAnswers :
        validator' = [Recorded(validator, "scm", a.status,
                               test_scm_repository_access(a))
                        EXCEPT !.pc = "commit"]

\* run_validation, step 5: without GITHUB_SHA or GITHUB_REF the check makes
\* no call and passes
ValidateCommitSync ==
    /\ validator.pc = "commit"
    /\ UNCHANGED <<webhookVars, resolver, linker, notifier, auth, sync>>
    /\ IF validator.commit_info
       THEN \E a \in PageAnswers :
            validator' = [Recorded(validator, "commit", a.status,
                                   validate_commit_sync(a))
                            EXCEPT !.pc = "summary"]
       ELSE validator' = [validator EXCEPT
                !.pc = "summary",
                !.validation_results =
                    Append(@, [name |-> check_names[Len(@) + 1],
                               success |-> TRUE])]

\* run_validation: the summary and the returned value
ValidationSummary ==
    /\ validator.pc = "summary"
    /\ UNCHANGED <<webhookVars, resolver, linker, notifier, auth, sync>>
    /\ validator' = [validator EXCEPT
            !.pc = "exited",
            !.result = Some(Acceptable(passed_count(validator.validation_results),
                                       Len(validator.validation_results)))]

InitValidator ==
    /\ WebhookOff
    /\ resolver = NotRun
    /\ linker = NotRun
    /\ notifier = NotRun
    /\ auth = NotRun
    /\ sync = NotRun
    /\ \E c \in BOOLEAN :
        validator = [pc |-> "login_page", commit_info |-> c,
                     validation_results |-> <<>>, calls |-> <<>>,
                     result |-> None]

NextValidator ==
    \/ ValidatorGetLoginPage
    \/ ValidatorPostLogin
    \/ TestProjectConnectivity
    \/ TestUserPermissions
    \/ TestScmRepositoryAccess
    \/ ValidateCommitSync
    \/ ValidationSummary

SpecValidator == InitValidator /\ [][NextValidator]_vars

\* The login check was recorded as failed.
ValidatorLoginFailed ==
    /\ validator.validation_results # <<>>
    /\ ~validator.validation_results[1].success

\* C38: after a failed login the validator runs no further check and
\* reports failure; after a successful login it runs the four remaining
\* checks in their fixed order whatever the earlier ones gave, and reports
\* success exactly when at least 3 of the 5 checks passed.
C38_ValidatorVerdict ==
    validator.pc # "off" =>
        LET results == validator.validation_results IN
        /\ Len(results) <= Len(check_names)
        /\ \A k \in 1..Len(results) : results[k].name = check_names[k]
        /\ ValidatorLoginFailed
                => /\ Len(results) = 1
                   /\ validator.pc = "exited"
                   /\ validator.result = Some(FALSE)
                   /\ \A k \in 1..Len(validator.calls) :
                        validator.calls[k].call \in {"login_page", "login"}
        /\ (validator.pc = "exited" /\ ~ValidatorLoginFailed)
                => /\ Len(results) = 5
                   /\ validator.result \in {Some(TRUE), Some(FALSE)}
                   /\ validator.result = Some(TRUE)
                        <=> passed_count(results) >= 3

C38_Witness ==
    /\ validator.pc = "exited"
    /\ validator.result = Some(TRUE)
    /\ [k \in 1..5 |-> validator.validation_results[k].success]
            = <<TRUE, FALSE, FALSE, TRUE, TRUE>>
====
